---- MODULE Spec2Model ----
(***************************************************************************)
(* Model of chython.reactor.reactions.PreparedReactor: construction of the *)
(* compiled rule instances (__init__) and the lazy reaction generator      *)
(* (__call__) in single-shot and multi-step mode.                          *)
(*                                                                         *)
(* The collaborators that live outside reactions.py (smarts, the `<`       *)
(* substructure test, Reactor, fix_mapping_overlap, str of a reaction) are *)
(* modelled from their contracts:                                          *)
(*   - a structure is a positive number, a pattern is a positive number,   *)
(*     and a pattern is a substructure of a structure iff it divides it    *)
(*     (a partial order that is not total);                                *)
(*   - a molecule is a structure plus an atom-numbering tag m; the mapping *)
(*     resolver renumbers a pool so that the tags do not overlap;          *)
(*   - a Reactor built from one role pattern rewrites every molecule of    *)
(*     the pool that the pattern matches, in pool order.                   *)
(***************************************************************************)
EXTENDS Naturals, Integers, Sequences, FiniteSets, TLC

(* ----------------------------- bounds ---------------------------------- *)
MaxAlt == 2            \* pattern alternatives per role, rule compilation
MaxInst == 3           \* compiled instances of a reactor that is invoked
MaxMols == 2           \* molecules per invocation
MaxLookups == 3        \* attribute lookups on the module
MaxBitPairs == 2       \* number_bit_pairs of a fingerprint
MaxRadius == 4         \* max_radius of a _chains call

TemplateCounts == {1, 2}   \* templates per rule definition
PatternSources == {1, 2}   \* pattern sources of roles
AlertSources == {2}        \* pattern sources of alerts
ProductSources == {1}      \* product pattern sources
Structures == {1, 2}       \* structures of the input molecules

VARIABLES rules, rxn_ms, rxn_os, alerts, global_alerts, ti,
          molecules, one_shot, check_alerts, excess_arg, excess,
          seen, stack, cur, rs, oi, pc, yielded, pushed, log,
          other,
          cache, built, ret,
          structs, number_bit_pairs, fragments, hashes,
          mol, chain_min, chain_max, queue, arr

reactor_vars == <<rules, rxn_ms, rxn_os, alerts, global_alerts, ti>>
call_vars == <<molecules, one_shot, check_alerts, excess_arg>>
gen_vars == <<excess, seen, stack, cur, rs, oi, yielded, pushed>>
vars == <<rules, rxn_ms, rxn_os, alerts, global_alerts, ti,
          molecules, one_shot, check_alerts, excess_arg, excess,
          seen, stack, cur, rs, oi, pc, yielded, pushed, log,
          other, cache, built, ret,
          structs, number_bit_pairs, fragments, hashes,
          mol, chain_min, chain_max, queue, arr>>
\* what a step of the generator at hand never touches: a second generator
\* of the same reactor, the module-level cache, the fingerprint computation
lookup_vars == <<cache, built, ret>>
chain_vars == <<mol, chain_min, chain_max, queue, arr>>
fp_vars == <<structs, number_bit_pairs, fragments, hashes, chain_vars>>
outer_vars == <<other, lookup_vars, fp_vars>>

(* ----------------------------- helpers --------------------------------- *)
Range(s) == {s[i] : i \in 1..Len(s)}

RECURSIVE Concat(_)
Concat(ss) == IF ss = <<>> THEN <<>> ELSE Head(ss) \o Concat(Tail(ss))

\* del x[i] with a 1-based position
DelAt(x, i) == SubSeq(x, 1, i - 1) \o SubSeq(x, i + 1, Len(x))

Reverse(q) == [i \in 1..Len(q) |-> q[Len(q) + 1 - i]]

\* non-empty strictly increasing sequences over the set of numbers S
IncSeqs(S) ==
  {q \in UNION {[1..l -> S] : l \in 1..Cardinality(S)} :
     \A i \in 1..(Len(q) - 1) : q[i] < q[i + 1]}

\* sequences without repetition over S of length 0..hi
InjSeqs(S, hi) ==
  {q \in UNION {[1..l -> S] : l \in 0..hi} :
     \A i, j \in 1..Len(q) : i # j => q[i] # q[j]}

(* ------------------------ external collaborators ----------------------- *)
\* smarts(x): compiles a pattern source into a query object
smarts(x) == [query |-> x]

\* a < m: the pattern a is a substructure of the molecule m
IsSub(a, m) == m.s % a.query = 0

\* fix_mapping_overlap(structures): same structures, atom numbers renumbered
\* so that no two molecules of the pool share one
fix_mapping_overlap(ms) == [i \in 1..Len(ms) |-> [s |-> ms[i].s, m |-> i]]

\* str(r): canonical key of a reaction, independent of the atom numbering
Str(r) == <<[i \in 1..Len(r.reactants) |-> r.reactants[i].s],
            [i \in 1..Len(r.products) |-> r.products[i].s]>>

\* ReactionContainer(reactants, products)
ReactionContainer(rc, pr) == [reactants |-> rc, products |-> pr]

\* Reactor(rs, [p], one_shot=..., automorphism_filter=False); id is the
\* identity of the constructed object
Reactor(rsp, p, os, id) ==
  [rs |-> rsp, products |-> <<p>>, one_shot |-> os, id |-> id]

\* the products a reactor builds from one matched molecule: the molecule
\* extended by the product pattern, and a split-off fragment when the
\* molecule is big enough
Patch(m, p) ==
  IF m.s > 2 * p.query
    THEN <<[s |-> m.s + p.query, m |-> 0], [s |-> p.query, m |-> 0]>>
    ELSE <<[s |-> m.s + p.query, m |-> 0]>>

\* rx(*rct): the raw results of a reactor on a pool, in pool order
RECURSIVE RxFrom(_, _, _)
RxFrom(rx, rct, j) ==
  IF j > Len(rct) THEN <<>>
  ELSE (IF Len(rx.rs) >= 1 /\ IsSub(rx.rs[1], rct[j])
          THEN <<ReactionContainer(rct, Patch(rct[j], rx.products[1]))>>
          ELSE <<>>) \o RxFrom(rx, rct, j + 1)

Rx(rx, rct) == RxFrom(rx, rct, 1)

(* --------------------------- __init__ ---------------------------------- *)
RoleOrder == <<"A", "B", "C", "D">>

\* ([smarts(x) for x in c[x]] for x in 'ABCD' if x in c)
RECURSIVE RoleLists(_, _)
RoleLists(c, k) ==
  IF k > Len(RoleOrder) THEN <<>>
  ELSE (IF RoleOrder[k] \in DOMAIN c.roles
          THEN <<[i \in 1..Len(c.roles[RoleOrder[k]]) |->
                    smarts(c.roles[RoleOrder[k]][i])]>>
          ELSE <<>>) \o RoleLists(c, k + 1)

\* mutant of product: the roles are zipped on their first alternative instead
\* of multiplied out
productFirstOnly(lists) == << [k \in 1..Len(lists) |-> lists[k][1]] >>

\* itertools.product(*lists): tuples in lexicographic order of positions,
\* the last list varying fastest
RECURSIVE product(_)
product(lists) ==
  IF lists = <<>> THEN << <<>> >>
  ELSE LET rest == product(Tail(lists))
           h == Head(lists)
       IN Concat([i \in 1..Len(h) |->
                    [j \in 1..Len(rest) |-> <<h[i]>> \o rest[j]]])

\* one pass of the loop over rules['templates']: returns the three lists
\* extended by the instances of template c
CompileTemplate(c, st) ==
  LET al == [i \in 1..Len(c.alerts) |-> smarts(c.alerts[i])]
      p == smarts(c.product)
      combos == product(RoleLists(c, 1))
      n == Len(st.ms)
  IN [ms |-> st.ms \o [i \in 1..Len(combos) |->
                         Reactor(combos[i], p, FALSE, n + i)],
      os |-> st.os \o [i \in 1..Len(combos) |->
                         Reactor(combos[i], p, TRUE, n + i)],
      al |-> st.al \o [i \in 1..Len(combos) |-> al]]

RECURSIVE CompileAll(_, _, _)
CompileAll(ts, k, st) ==
  IF k > Len(ts) THEN st
  ELSE CompileAll(ts, k + 1, CompileTemplate(ts[k], st))

Compiled(r) == CompileAll(r.templates, 1, [ms |-> <<>>, os |-> <<>>, al |-> <<>>])

GlobalAlerts(r) == [i \in 1..Len(r.alerts) |-> smarts(r.alerts[i])]

(* ------------------------ rule definitions ----------------------------- *)
Roles == {"A", "B", "C", "D"}
AlertLists == {<<>>} \cup {<<a>> : a \in AlertSources}

\* rule definitions used to exercise construction: any set of roles, each
\* with 1..MaxAlt alternatives
AltPrefixes == {[i \in 1..n |-> i] : n \in 1..MaxAlt}
RoleShapes == UNION {[R -> AltPrefixes] : R \in SUBSET Roles}
\* template i carries the product source i and the single alert source i + 1,
\* so that an instance tells which template it was compiled from
CompileRule(f) ==
  [templates |-> [i \in DOMAIN f |->
                    [roles |-> f[i], product |-> i, alerts |-> <<i + 1>>]],
   alerts |-> <<>>]

\* rule definitions of the reactors that are invoked: templates with the
\* single role A, at most MaxInst instances in total
DriverTemplates ==
  [roles : [{"A"} -> IncSeqs(PatternSources)],
   product : ProductSources, alerts : AlertLists]
DriverRules ==
  {r \in [templates : UNION {[1..n -> DriverTemplates] : n \in TemplateCounts},
          alerts : AlertLists] :
     Len(Compiled(r).ms) <= MaxInst}

NoFrame == [rx |-> Reactor(<<>>, smarts(1), FALSE, 0), rct |-> <<>>,
            nxt |-> <<>>, lin |-> <<>>, pnxt |-> <<>>, at |-> <<0, 0>>]
NoExcess == [alias |-> FALSE, items |-> <<>>]
NoArg == [none |-> TRUE, idx |-> <<>>]

IdleCall ==
  /\ molecules = <<>> /\ one_shot = TRUE /\ check_alerts = TRUE
  /\ excess_arg = NoArg /\ excess = NoExcess
  /\ seen = {} /\ stack = <<>> /\ cur = NoFrame /\ rs = <<>> /\ oi = 0
  /\ yielded = <<>> /\ pushed = <<>> /\ log = <<>>

\* a generator of the reactor that has not been created yet
IdleGen ==
  [molecules |-> <<>>, one_shot |-> TRUE, check_alerts |-> TRUE,
   excess_arg |-> NoArg, excess |-> NoExcess, seen |-> {}, stack |-> <<>>,
   cur |-> NoFrame, rs |-> <<>>, oi |-> 0, pc |-> "ready",
   yielded |-> <<>>, pushed |-> <<>>, log |-> <<>>]

\* _chains has not been called
ChainsIdle ==
  /\ mol = [atoms |-> <<>>, bonds |-> {}, descending |-> FALSE]
  /\ chain_min = 1 /\ chain_max = 1
  /\ queue = <<>> /\ arr = {}

\* no second generator, nothing looked up, no fingerprint asked for
OuterIdle ==
  /\ other = IdleGen
  /\ cache = <<>> /\ built = <<>> /\ ret = <<>>
  /\ structs = <<>> /\ number_bit_pairs = 1
  /\ fragments = <<>> /\ hashes = <<>>
  /\ ChainsIdle

(* --------------- construction, one template per step ------------------- *)
InitCompile ==
  /\ \E n \in TemplateCounts : \E f \in [1..n -> RoleShapes] :
       rules = CompileRule(f)
  /\ rxn_ms = <<>> /\ rxn_os = <<>> /\ alerts = <<>>
  /\ global_alerts = GlobalAlerts(rules)
  /\ ti = 1
  /\ pc = "init"
  /\ IdleCall
  /\ OuterIdle

InitTemplate ==
  /\ pc = "init"
  /\ ti <= Len(rules.templates)
  /\ LET st == CompileTemplate(rules.templates[ti],
                               [ms |-> rxn_ms, os |-> rxn_os, al |-> alerts])
     IN /\ rxn_ms' = st.ms
        /\ rxn_os' = st.os
        /\ alerts' = st.al
  /\ ti' = ti + 1
  /\ UNCHANGED <<outer_vars, rules, global_alerts, pc, call_vars, gen_vars, log>>

InitDone ==
  /\ pc = "init"
  /\ ti > Len(rules.templates)
  /\ pc' = "ready"
  /\ UNCHANGED <<outer_vars, reactor_vars, call_vars, gen_vars, log>>

NextCompile == InitTemplate \/ InitDone
SpecCompile == InitCompile /\ [][NextCompile]_vars

(* ----------------------------- __call__ -------------------------------- *)
Event(op, inst, os, arg) == [op |-> op, inst |-> inst, os |-> os, arg |-> arg]

\* any(a < m for a, m in product(al, molecules))
Blocked(al, ms) ==
  \E i \in 1..Len(al) : \E j \in 1..Len(ms) : IsSub(al[i], ms[j])

\* the state after construction, for every rule definition that is invoked
Init ==
  /\ rules \in DriverRules
  /\ rxn_ms = Compiled(rules).ms
  /\ rxn_os = Compiled(rules).os
  /\ alerts = Compiled(rules).al
  /\ global_alerts = GlobalAlerts(rules)
  /\ ti = Len(rules.templates) + 1
  /\ pc = "ready"
  /\ IdleCall
  /\ OuterIdle

Molecules == UNION {[1..n -> [s : Structures, m : {0}]] : n \in 0..MaxMols}
ExcessArgs(n) ==
  {NoArg} \cup {[none |-> FALSE, idx |-> q] : q \in InjSeqs(0..(n - 1), n)}

\* reactor(*molecules, one_shot=..., check_alerts=..., excess=...): creates
\* the generator; no line of the body runs before the first request
Call ==
  /\ pc = "ready"
  /\ \E ms \in Molecules, os \in BOOLEAN, ca \in BOOLEAN :
       \E ex \in ExcessArgs(Len(ms)) :
         /\ molecules' = ms
         /\ one_shot' = os
         /\ check_alerts' = ca
         /\ excess_arg' = ex
  /\ pc' = "start"
  /\ UNCHANGED <<outer_vars, reactor_vars, gen_vars, log>>

\* if not molecules: raise ValueError
EmptyError ==
  /\ pc = "start"
  /\ molecules = <<>>
  /\ pc' = "error"
  /\ UNCHANGED <<outer_vars, reactor_vars, call_vars, gen_vars, log>>

\* if check_alerts and any(global alert < molecule): return
GlobalBlocked ==
  /\ pc = "start"
  /\ molecules # <<>>
  /\ check_alerts /\ Blocked(global_alerts, molecules)
  /\ log' = Append(log, Event("global", 0, FALSE, molecules))
  /\ pc' = "done"
  /\ UNCHANGED <<outer_vars, reactor_vars, call_vars, gen_vars>>

\* mutant of Prologue: the mapping resolver runs before the global alert check
PrologueFixFirst ==
  <<Event("fix", 0, FALSE, molecules)>>
    \o (IF check_alerts THEN <<Event("global", 0, FALSE, molecules)>>
                        ELSE <<>>)

\* the events of the lines that every unblocked invocation runs first: the
\* global alert check (when enabled), then fix_mapping_overlap
Prologue ==
  (IF check_alerts THEN <<Event("global", 0, FALSE, molecules)>> ELSE <<>>)
    \o <<Event("fix", 0, FALSE, molecules)>>

\* mutant of Passes: the global alert check is missing
PassesWithoutGlobalCheck == molecules # <<>>

\* mutant of Passes: the check for an empty molecule list is missing
PassesWithoutEmptyCheck == ~(check_alerts /\ Blocked(global_alerts, molecules))

Passes == molecules # <<>> /\ ~(check_alerts /\ Blocked(global_alerts, molecules))

BeginOneShot ==
  /\ pc = "start"
  /\ Passes
  /\ one_shot
  /\ molecules' = fix_mapping_overlap(molecules)
  /\ seen' = {}
  /\ oi' = 1
  /\ rs' = <<>>
  /\ log' = log \o Prologue
  /\ pc' = "os"
  /\ UNCHANGED <<outer_vars, reactor_vars, one_shot, check_alerts, excess_arg,
                 excess, stack, cur, yielded, pushed>>

\* for rx, al in zip(self.rxn_os, self.alerts): blocked instance, continue
OsSkip ==
  /\ pc = "os" /\ rs = <<>>
  /\ oi <= Len(rxn_os)
  /\ check_alerts /\ Blocked(alerts[oi], molecules)
  /\ log' = Append(log, Event("local", rxn_os[oi].id, FALSE, molecules))
  /\ oi' = oi + 1
  /\ UNCHANGED <<outer_vars, reactor_vars, call_vars, excess, seen, stack, cur, rs,
                 yielded, pushed, pc>>

\* rx(*molecules) for the next instance that is not blocked
OsInvoke ==
  /\ pc = "os" /\ rs = <<>>
  /\ oi <= Len(rxn_os)
  /\ ~(check_alerts /\ Blocked(alerts[oi], molecules))
  /\ rs' = Rx(rxn_os[oi], molecules)
  /\ cur' = [NoFrame EXCEPT !.rx = rxn_os[oi], !.rct = molecules]
  /\ log' = log
       \o (IF check_alerts
             THEN <<Event("local", rxn_os[oi].id, FALSE, molecules)>> ELSE <<>>)
       \o <<Event("rx", rxn_os[oi].id, rxn_os[oi].one_shot, molecules)>>
  /\ oi' = oi + 1
  /\ UNCHANGED <<outer_vars, reactor_vars, call_vars, excess, seen, stack, yielded,
                 pushed, pc>>

\* if str(r) in seen: continue
OsDup ==
  /\ pc = "os" /\ rs # <<>>
  /\ Str(Head(rs)) \in seen
  /\ rs' = Tail(rs)
  /\ log' = Append(log, Event("dup", cur.rx.id, cur.rx.one_shot, <<>>))
  /\ UNCHANGED <<outer_vars, reactor_vars, call_vars, excess, seen, stack, cur, oi,
                 yielded, pushed, pc>>

\* mutant of OsYield: the result is yielded without looking it up in seen
OsYieldUnchecked ==
  /\ pc = "os" /\ rs # <<>>
  /\ seen' = seen \cup {Str(Head(rs))}
  /\ yielded' = Append(yielded, Head(rs))
  /\ log' = Append(log, Event("yield", cur.rx.id, cur.rx.one_shot, <<>>))
  /\ rs' = Tail(rs)
  /\ UNCHANGED <<outer_vars, reactor_vars, call_vars, excess, stack, cur, oi, pushed, pc>>

\* seen.add(str(r)); yield r
OsYield ==
  /\ pc = "os" /\ rs # <<>>
  /\ Str(Head(rs)) \notin seen
  /\ seen' = seen \cup {Str(Head(rs))}
  /\ yielded' = Append(yielded, Head(rs))
  /\ log' = Append(log, Event("yield", cur.rx.id, cur.rx.one_shot, <<>>))
  /\ rs' = Tail(rs)
  /\ UNCHANGED <<outer_vars, reactor_vars, call_vars, excess, stack, cur, oi, pushed, pc>>

\* the loop over the instances is over: return
OsReturn ==
  /\ pc = "os" /\ rs = <<>>
  /\ oi > Len(rxn_os)
  /\ pc' = "done"
  /\ UNCHANGED <<outer_vars, reactor_vars, call_vars, gen_vars, log>>

(* ---------------------------- multi-step ------------------------------- *)
\* a stack entry (rx, rct, nxt_rxn); lin, pnxt and at record its ancestors'
\* instances, its parent's remaining rules and the moment it was pushed
Frame(rx, rct, nxt, lin, pnxt) ==
  [rx |-> rx, rct |-> rct, nxt |-> nxt, lin |-> lin, pnxt |-> pnxt,
   at |-> <<0, 0>>]

\* the frames fs, pushed one after the other while event number e is logged
Stamp(fs, e) == [i \in 1..Len(fs) |-> [fs[i] EXCEPT !.at = <<e, i>>]]

\* mutant of Seed: the seeds are pushed with append instead of appendleft
RECURSIVE SeedAppended(_, _, _)
SeedAppended(i, st, ms) ==
  IF i > Len(rxn_ms) THEN st
  ELSE IF check_alerts /\ Blocked(alerts[i], ms)
    THEN SeedAppended(i + 1, st, ms)
  ELSE SeedAppended(i + 1,
         st \o <<[Frame(rxn_ms[i], ms, DelAt(rxn_ms, i), <<>>, rxn_ms)
                    EXCEPT !.at = <<0, Len(st) + 1>>]>>, ms)

\* mutant of Excess: the selected reactants are taken in tuple order instead
\* of index-list order
ExcessInTupleOrder(arg, ms) ==
  IF arg.none THEN [alias |-> TRUE, items |-> ms]
  ELSE [alias |-> FALSE,
        items |-> SelectSeq(ms, LAMBDA e :
                    \E i \in 1..Len(arg.idx) : ms[arg.idx[i] + 1] = e)]

\* excess = molecules if excess is None else [molecules[x] for x in excess]
Excess(arg, ms) ==
  IF arg.none THEN [alias |-> TRUE, items |-> ms]
  ELSE [alias |-> FALSE,
        items |-> [i \in 1..Len(arg.idx) |-> ms[arg.idx[i] + 1]]]

\* mutant of Seed: the local alerts are checked whatever check_alerts says
RECURSIVE SeedIgnoringFlag(_, _, _)
SeedIgnoringFlag(i, st, ms) ==
  IF i > Len(rxn_ms) THEN st
  ELSE IF Blocked(alerts[i], ms) THEN SeedIgnoringFlag(i + 1, st, ms)
  ELSE SeedIgnoringFlag(i + 1,
         <<[Frame(rxn_ms[i], ms, DelAt(rxn_ms, i), <<>>, rxn_ms)
              EXCEPT !.at = <<0, Len(st) + 1>>]>> \o st, ms)

\* mutant of Seed: del x[i] is missing, a seed keeps itself in its remaining
\* rules
RECURSIVE SeedKeepingSelf(_, _, _)
SeedKeepingSelf(i, st, ms) ==
  IF i > Len(rxn_ms) THEN st
  ELSE IF check_alerts /\ Blocked(alerts[i], ms)
    THEN SeedKeepingSelf(i + 1, st, ms)
  ELSE SeedKeepingSelf(i + 1,
         <<[Frame(rxn_ms[i], ms, rxn_ms, <<>>, rxn_ms)
              EXCEPT !.at = <<0, Len(st) + 1>>]>> \o st, ms)

\* the seeding loop: stack.appendleft((rx, molecules, x)) for every instance
\* that the local alerts do not block
RECURSIVE Seed(_, _, _)
Seed(i, st, ms) ==
  IF i > Len(rxn_ms) THEN st
  ELSE IF check_alerts /\ Blocked(alerts[i], ms) THEN Seed(i + 1, st, ms)
  ELSE Seed(i + 1,
            <<[Frame(rxn_ms[i], ms, DelAt(rxn_ms, i), <<>>, rxn_ms)
                 EXCEPT !.at = <<0, Len(st) + 1>>]>> \o st, ms)

SeedEvents(ms) ==
  IF check_alerts
    THEN [i \in 1..Len(rxn_ms) |-> Event("local", rxn_ms[i].id, FALSE, ms)]
    ELSE <<>>

\* mutant of RxnMsAfterSeeding: x = self.rxn_ms without copy(), the first
\* `del x[i]` hits the reactor's own list
RxnMsAliased(l) == IF l = <<>> THEN l ELSE Tail(l)

\* self.rxn_ms after the seeding loop: x = self.rxn_ms.copy() makes every
\* `del x[i]` work on a private list
RxnMsAfterSeeding(l) == l

BeginMultiStep ==
  /\ pc = "start"
  /\ Passes
  /\ ~one_shot
  /\ rxn_ms' = RxnMsAfterSeeding(rxn_ms)
  /\ LET ms == fix_mapping_overlap(molecules)
     IN /\ molecules' = ms
        /\ excess' = Excess(excess_arg, ms)
        /\ stack' = Seed(1, <<>>, ms)
        /\ log' = log \o Prologue \o SeedEvents(ms)
  /\ seen' = {}
  /\ rs' = <<>>
  /\ pc' = "ms"
  /\ UNCHANGED <<outer_vars, rules, rxn_os, alerts, global_alerts, ti,
                 one_shot, check_alerts, excess_arg, cur, oi, yielded, pushed>>

\* rx, rct, nxt_rxn = stack.pop(); rx(*rct)
Pop ==
  /\ pc = "ms" /\ rs = <<>>
  /\ stack # <<>>
  /\ cur' = stack[Len(stack)]
  /\ stack' = SubSeq(stack, 1, Len(stack) - 1)
  /\ rs' = Rx(stack[Len(stack)].rx, stack[Len(stack)].rct)
  /\ log' = Append(log, Event("rx", stack[Len(stack)].rx.id,
                              stack[Len(stack)].rx.one_shot,
                              stack[Len(stack)].rct))
  /\ pushed' = <<>>
  /\ UNCHANGED <<outer_vars, reactor_vars, call_vars, excess, seen, oi, yielded, pc>>

\* the key that decides whether a raw result of a frame is new
SeenKey(r) == Str(r)

MsDup ==
  /\ pc = "ms" /\ rs # <<>>
  /\ SeenKey(Head(rs)) \in seen
  /\ rs' = Tail(rs)
  /\ pushed' = <<>>
  /\ log' = Append(log, Event("dup", cur.rx.id, cur.rx.one_shot, <<>>))
  /\ UNCHANGED <<outer_vars, reactor_vars, call_vars, excess, seen, stack, cur, oi,
                 yielded, pc>>

\* mutant of NewPool: reversed() is missing, the products end up in reverse
\* order in front of the pool
NewPoolProductsReversed(r) ==
  fix_mapping_overlap(Reverse(r.products) \o excess.items)

\* x = excess.copy(); insert the products in front; fix_mapping_overlap(x)
NewPool(r) == fix_mapping_overlap(r.products \o excess.items)

\* mutant of PerRule: del z[m] is missing, a child keeps itself in its
\* remaining rules
PerRuleKeepingSelf(pool, f) ==
  [m \in 1..Len(f.nxt) |->
     Frame(f.nxt[m], pool, f.nxt, Append(f.lin, f.rx.id), f.nxt)]

\* for m, nrx in enumerate(nxt_rxn): z = nxt_rxn.copy(); del z[m];
\* stack.append((nrx, pool, z))
PerRule(pool, f) ==
  [m \in 1..Len(f.nxt) |->
     Frame(f.nxt[m], pool, DelAt(f.nxt, m), Append(f.lin, f.rx.id), f.nxt)]

\* explicit excess: every remaining instance gets the entire new pool
WholePoolFrames(x, f) == PerRule(x, f)

\* mutant of DropOneFrames: the range starts at 0, products are dropped too
DropAnyFrames(x, np, f) ==
  Concat([k \in 1..Len(x) |->
            [m \in 1..Len(f.nxt) |->
               Frame(f.nxt[m], DelAt(x, k), DelAt(f.nxt, m),
                     Append(f.lin, f.rx.id), f.nxt)]])

\* no excess given: for n in range(len(r.products), len(x)): y = x.copy();
\* del y[n]; one frame per remaining instance
DropOneFrames(x, np, f) ==
  Concat([k \in 1..(Len(x) - np) |-> PerRule(DelAt(x, np + k), f)])

\* mutant of Children: without excess the whole pool is pushed as well
ChildrenWholeAndDrop(r, f) ==
  IF ~excess.alias THEN WholePoolFrames(NewPool(r), f)
  ELSE WholePoolFrames(NewPool(r), f)
         \o DropOneFrames(NewPool(r), Len(r.products), f)

\* the frames pushed for a yielded result: the branch on `excess is not
\* molecules`
Children(r, f) ==
  IF ~excess.alias THEN WholePoolFrames(NewPool(r), f)
  ELSE DropOneFrames(NewPool(r), Len(r.products), f)

\* seen.add(str(r)); yield the rebuilt result; push the next-stage frames
MsYield ==
  /\ pc = "ms" /\ rs # <<>>
  /\ SeenKey(Head(rs)) \notin seen
  /\ seen' = seen \cup {SeenKey(Head(rs))}
  /\ LET r == ReactionContainer(molecules, Head(rs).products)
     IN /\ yielded' = Append(yielded, r)
        /\ pushed' = Children(r, cur)
        /\ stack' = stack \o Stamp(Children(r, cur), Len(log) + 1)
  /\ log' = Append(log, Event("yield", cur.rx.id, cur.rx.one_shot, <<>>))
  /\ rs' = Tail(rs)
  /\ UNCHANGED <<outer_vars, reactor_vars, call_vars, excess, cur, oi, pc>>

\* while stack: is over
MsReturn ==
  /\ pc = "ms" /\ rs = <<>>
  /\ stack = <<>>
  /\ pc' = "done"
  /\ UNCHANGED <<outer_vars, reactor_vars, call_vars, gen_vars, log>>

Step ==
  \/ EmptyError \/ GlobalBlocked
  \/ BeginOneShot \/ OsSkip \/ OsInvoke \/ OsDup \/ OsYield \/ OsReturn
  \/ BeginMultiStep \/ Pop \/ MsDup \/ MsYield \/ MsReturn

Next == Call \/ Step

Spec == Init /\ [][Next]_vars

\* the consumer keeps requesting results until the generator is exhausted
FairSpec == Spec /\ WF_vars(Step)

(* ------------------- a mapping resolver that may fail ------------------ *)
\* fix_mapping_overlap either returns the renumbered pool or raises; which
\* pools are beyond repair is the resolver's business, so both outcomes are
\* possible for every pool
ResolverOutcomes(pool) == {"ok", "raise"}

\* molecules = fix_mapping_overlap(molecules) raises: the generator ends with
\* the error before anything is yielded
FixFailsAtStart ==
  /\ pc = "start"
  /\ Passes
  /\ "raise" \in ResolverOutcomes(molecules)
  /\ log' = log
       \o (IF check_alerts THEN <<Event("global", 0, FALSE, molecules)>>
                           ELSE <<>>)
       \o <<Event("raise", 0, FALSE, molecules)>>
  /\ pc' = "error"
  /\ UNCHANGED <<outer_vars, reactor_vars, call_vars, gen_vars>>

\* mutant of MsYieldFixFails: the error is swallowed and the loop goes on
\* with the next raw result
MsYieldFixSwallowed ==
  /\ pc = "ms" /\ rs # <<>>
  /\ SeenKey(Head(rs)) \notin seen
  /\ LET r == ReactionContainer(molecules, Head(rs).products)
     IN /\ "raise" \in ResolverOutcomes(r.products \o excess.items)
        /\ yielded' = Append(yielded, r)
        /\ log' = log \o <<Event("yield", cur.rx.id, cur.rx.one_shot, <<>>),
                           Event("raise", cur.rx.id, cur.rx.one_shot,
                                 r.products \o excess.items)>>
  /\ seen' = seen \cup {SeenKey(Head(rs))}
  /\ pushed' = <<>>
  /\ rs' = Tail(rs)
  /\ UNCHANGED <<outer_vars, reactor_vars, call_vars, excess, stack, cur, oi, pc>>

\* seen.add(str(r)); yield the rebuilt result; x = fix_mapping_overlap(x)
\* raises when the consumer asks for the next result: nothing is pushed and
\* the generator ends with the error
MsYieldFixFails ==
  /\ pc = "ms" /\ rs # <<>>
  /\ SeenKey(Head(rs)) \notin seen
  /\ LET r == ReactionContainer(molecules, Head(rs).products)
     IN /\ "raise" \in ResolverOutcomes(r.products \o excess.items)
        /\ yielded' = Append(yielded, r)
        /\ log' = log \o <<Event("yield", cur.rx.id, cur.rx.one_shot, <<>>),
                           Event("raise", cur.rx.id, cur.rx.one_shot,
                                 r.products \o excess.items)>>
  /\ seen' = seen \cup {SeenKey(Head(rs))}
  /\ pushed' = <<>>
  /\ rs' = Tail(rs)
  /\ pc' = "error"
  /\ UNCHANGED <<outer_vars, reactor_vars, call_vars, excess, stack, cur, oi>>

NextFail == Next \/ FixFailsAtStart \/ MsYieldFixFails

SpecFail == Init /\ [][NextFail]_vars

(* ------------- two generators of one reactor, interleaved -------------- *)
PairSizes == {0, 1, 2}

\* the generator at hand, as a value
Gen ==
  [molecules |-> molecules, one_shot |-> one_shot,
   check_alerts |-> check_alerts, excess_arg |-> excess_arg,
   excess |-> excess, seen |-> seen, stack |-> stack, cur |-> cur,
   rs |-> rs, oi |-> oi, pc |-> pc, yielded |-> yielded,
   pushed |-> pushed, log |-> log]

InitPair ==
  /\ Init
  /\ Len(rxn_ms) \in PairSizes

\* excess omitted, or the empty index list
PairExcess == {NoArg, [none |-> FALSE, idx |-> <<>>]}

\* reactor(*molecules, ...): the first call takes any reactants and flags;
\* the second is a multi-step call on the same reactants with the same
\* check_alerts
CallPair ==
  /\ pc = "ready"
  /\ \/ /\ other.pc = "ready"
        /\ \E ms \in {q \in Molecules : Len(q) \in PairSizes} :
             \E os \in BOOLEAN, ca \in BOOLEAN, ex \in PairExcess :
               /\ molecules' = ms
               /\ one_shot' = os
               /\ check_alerts' = ca
               /\ excess_arg' = ex
     \/ /\ other.pc # "ready"
        /\ molecules' = [i \in 1..Len(other.molecules) |->
                           [s |-> other.molecules[i].s, m |-> 0]]
        /\ one_shot' = FALSE
        /\ check_alerts' = other.check_alerts
        /\ excess_arg' \in PairExcess
  /\ pc' = "start"
  /\ UNCHANGED <<outer_vars, reactor_vars, gen_vars, log>>

\* the generator at hand is not running: it was created and not started, it
\* is suspended at a yield, or it has ended
Suspended ==
  \/ pc \in {"start", "done", "error", "closed"}
  \/ pc \in {"os", "ms"} /\ log # <<>> /\ log[Len(log)].op = "yield"

\* the consumer turns to the other generator: the locals of the one at hand
\* stay with its frame, the reactor is the same object for both
Switch ==
  /\ Suspended
  /\ other.pc \in {"ready", "start", "os", "ms"}
  /\ other' = Gen
  /\ molecules' = other.molecules
  /\ one_shot' = other.one_shot
  /\ check_alerts' = other.check_alerts
  /\ excess_arg' = other.excess_arg
  /\ excess' = other.excess
  /\ seen' = other.seen
  /\ stack' = other.stack
  /\ cur' = other.cur
  /\ rs' = other.rs
  /\ oi' = other.oi
  /\ pc' = other.pc
  /\ yielded' = other.yielded
  /\ pushed' = other.pushed
  /\ log' = other.log
  /\ UNCHANGED <<reactor_vars, lookup_vars, fp_vars>>

\* the consumer drops the generator at hand before it is exhausted
Abandon ==
  /\ pc \in {"start", "os", "ms"} /\ Suspended
  /\ pc' = "closed"
  /\ UNCHANGED <<outer_vars, reactor_vars, call_vars, gen_vars, log>>

NextPair == CallPair \/ Step \/ Switch \/ Abandon

SpecPair == InitPair /\ [][NextPair]_vars

(* ---------------- module-level __getattr__ and _cache ------------------ *)
\* an identifier: u leading underscores in front of a stem
Ident(u, stem) == [u |-> u, stem |-> stem]
\* k[1:] of an identifier that starts with an underscore, and f'_{name}'
DropUnderscore(k) == Ident(k.u - 1, k.stem)
AddUnderscore(n) == Ident(n.u + 1, n.stem)

\* two of the rule dictionaries of the module, a template with roles A and B
RuleDict(name) ==
  [name |-> name,
   templates |-> <<[roles |-> [A |-> <<1, 2>>, B |-> <<1>>],
                    product |-> 1, alerts |-> <<2>>]>>,
   alerts |-> <<2>>]

\* globals() when line 281 runs: the rule dictionaries, the class, and
\* __builtins__, which in an imported module is the dict of the builtins
\* module; _cache and prepare_reactor are assigned later
GlobalsAtAll ==
  [k \in {Ident(1, "esterification"), Ident(1, "amidation"),
          Ident(2, "builtins__"), Ident(0, "PreparedReactor")} |->
     CASE k = Ident(1, "esterification") ->
            [type |-> "dict", value |-> RuleDict("esterification")]
       [] k = Ident(1, "amidation") ->
            [type |-> "dict", value |-> RuleDict("amidation")]
       [] k = Ident(2, "builtins__") ->
            [type |-> "dict", value |-> [print |-> "builtin"]]
       [] OTHER -> [type |-> "class", value |-> <<>>]]

\* globals() once the module is imported
Globals ==
  [k \in DOMAIN GlobalsAtAll
         \cup {Ident(0, "prepare_reactor"), Ident(1, "cache")} |->
     IF k \in DOMAIN GlobalsAtAll THEN GlobalsAtAll[k]
     ELSE IF k = Ident(1, "cache") THEN [type |-> "dict", value |-> <<>>]
     ELSE [type |-> "class", value |-> <<>>]]

\* __all__ = ['PreparedReactor', 'prepare_reactor'], extended by k[1:] for
\* every global whose name starts with '_' and whose value is a non-empty
\* dict
All ==
  {Ident(0, "PreparedReactor"), Ident(0, "prepare_reactor")}
    \cup {DropUnderscore(k) :
            k \in {g \in DOMAIN GlobalsAtAll :
                     /\ g.u >= 1
                     /\ GlobalsAtAll[g].type = "dict"
                     /\ GlobalsAtAll[g].value # <<>>}}

\* PreparedReactor(rules, name): rules['alerts'] and rules['templates'] raise
\* KeyError on a dict that is no rule definition
Construct(r, name, id) ==
  IF "alerts" \notin DOMAIN r \/ "templates" \notin DOMAIN r
    THEN [ok |-> FALSE, obj |-> <<>>]
    ELSE [ok |-> TRUE,
          obj |-> [id |-> id, name |-> name, rules |-> r,
                   rxn_ms |-> Compiled(r).ms, rxn_os |-> Compiled(r).os,
                   alerts |-> Compiled(r).al,
                   global_alerts |-> GlobalAlerts(r)]]

\* the names looked up on the module
LookupNames ==
  {Ident(0, "esterification"), Ident(0, "amidation"), Ident(1, "builtins__"),
   Ident(0, "PreparedReactor"), Ident(0, "nope")}

Outcome(name, kind, obj) ==
  [name |-> name, kind |-> kind, obj |-> obj, keys |-> DOMAIN cache']

InitLookup ==
  /\ rules = [templates |-> <<>>, alerts |-> <<>>]
  /\ rxn_ms = <<>> /\ rxn_os = <<>> /\ alerts = <<>>
  /\ global_alerts = <<>>
  /\ ti = 1
  /\ pc = "module"
  /\ IdleCall
  /\ OuterIdle

\* the name is a global of the module: __getattr__ is not called
LookupGlobal ==
  /\ pc = "module" /\ Len(ret) < MaxLookups
  /\ \E name \in LookupNames :
       /\ name \in DOMAIN Globals
       /\ cache' = cache
       /\ ret' = Append(ret, Outcome(name, "global", Globals[name]))
  /\ UNCHANGED <<built, other, fp_vars, reactor_vars, call_vars, gen_vars,
                 pc, log>>

\* return _cache[name]
LookupHit ==
  /\ pc = "module" /\ Len(ret) < MaxLookups
  /\ \E name \in LookupNames :
       /\ name \notin DOMAIN Globals
       /\ name \in DOMAIN cache
       /\ cache' = cache
       /\ ret' = Append(ret, Outcome(name, "object", cache[name]))
  /\ UNCHANGED <<built, other, fp_vars, reactor_vars, call_vars, gen_vars,
                 pc, log>>

\* _cache[name] = t = PreparedReactor(globals()[f'_{name}'], name); return t
LookupBuild ==
  /\ pc = "module" /\ Len(ret) < MaxLookups
  /\ \E name \in LookupNames :
       /\ name \notin DOMAIN Globals
       /\ name \notin DOMAIN cache
       /\ name \in All
       /\ AddUnderscore(name) \in DOMAIN Globals
       /\ LET t == Construct(Globals[AddUnderscore(name)].value, name,
                             Len(built) + 1)
          IN /\ t.ok
             /\ built' = Append(built, name)
             /\ cache' = [n \in DOMAIN cache \cup {name} |->
                            IF n = name THEN t.obj ELSE cache[n]]
             /\ ret' = Append(ret, Outcome(name, "object", t.obj))
  /\ UNCHANGED <<other, fp_vars, reactor_vars, call_vars, gen_vars, pc, log>>

\* globals()[f'_{name}'] or the constructor raises KeyError: the assignment
\* to _cache[name] is not reached
LookupBuildFails ==
  /\ pc = "module" /\ Len(ret) < MaxLookups
  /\ \E name \in LookupNames :
       /\ name \notin DOMAIN Globals
       /\ name \notin DOMAIN cache
       /\ name \in All
       /\ \/ AddUnderscore(name) \notin DOMAIN Globals
          \/ /\ AddUnderscore(name) \in DOMAIN Globals
             /\ ~Construct(Globals[AddUnderscore(name)].value, name,
                           Len(built) + 1).ok
       /\ cache' = cache
       /\ ret' = Append(ret, Outcome(name, "KeyError", <<>>))
  /\ UNCHANGED <<built, other, fp_vars, reactor_vars, call_vars, gen_vars,
                 pc, log>>

\* raise AttributeError
LookupUnknown ==
  /\ pc = "module" /\ Len(ret) < MaxLookups
  /\ \E name \in LookupNames :
       /\ name \notin DOMAIN Globals
       /\ name \notin DOMAIN cache
       /\ name \notin All
       /\ cache' = cache
       /\ ret' = Append(ret, Outcome(name, "AttributeError", <<>>))
  /\ UNCHANGED <<built, other, fp_vars, reactor_vars, call_vars, gen_vars,
                 pc, log>>

NextLookup ==
  \/ LookupGlobal \/ LookupHit \/ LookupBuild \/ LookupBuildFails
  \/ LookupUnknown

SpecLookup == InitLookup /\ [][NextLookup]_vars

(* ------------------ LinearFingerprint.linear_hash_set ------------------- *)
min_radius == 1
max_radius == 4
HashModulus == 32

AtomCounts == {1, 2, 3}
AtomLabels == {1, 2}

\* a structure: atoms[i] is hash(_atom2identifiers(atom i)), bonds the set
\* of bonded pairs, every bond of order 1
FpStructures ==
  UNION {[atoms : [1..n -> AtomLabels],
          bonds : SUBSET {e \in SUBSET (1..n) : Cardinality(e) = 2}] :
         n \in AtomCounts}

Min(a, b) == IF a < b THEN a ELSE b

\* a > b for two tuples of the same length
TupleGreater(a, b) ==
  \E i \in 1..Len(a) : a[i] > b[i] /\ \A j \in 1..(i - 1) : a[j] = b[j]

\* bonds[now[-1]] without the atoms of now, each appended to now
Extend(st, now) ==
  {Append(now, x) : x \in {y \in 1..Len(st.atoms) :
                             /\ {now[Len(now)], y} \in st.bonds
                             /\ y \notin Range(now)}}

\* the while loop of _chains, one chain length per round: the chains of
\* length len in the queue (level) are extended, queued again while shorter than
\* max_radius, and added in their greater orientation from min_radius on
RECURSIVE Grow(_, _, _, _)
Grow(st, level, acc, len) ==
  IF level = {} THEN acc
  ELSE LET var == UNION {Extend(st, now) : now \in level}
       IN Grow(st,
               IF len + 1 < max_radius THEN var ELSE {},
               IF len + 1 >= min_radius
                 THEN acc \cup {IF TupleGreater(f, Reverse(f))
                                  THEN f ELSE Reverse(f) : f \in var}
                 ELSE acc,
               len + 1)

Chains(st) ==
  LET single == {<<x>> : x \in 1..Len(st.atoms)}
  IN IF min_radius = 1
       THEN (IF max_radius = 1 THEN single ELSE Grow(st, single, single, 1))
       ELSE Grow(st, single, {}, 1)

\* _fragment: atom, bond, atom, ... along the chain, in the greater of the
\* two reading directions
Fragment(st, frag) ==
  LET var == [k \in 1..(2 * Len(frag) - 1) |->
                IF k % 2 = 1 THEN st.atoms[frag[(k + 1) \div 2]] ELSE 1]
  IN IF TupleGreater(var, Reverse(var)) THEN var ELSE Reverse(var)

\* _fragments: descriptor -> the chains that carry it
Fragments(st) ==
  [d \in {Fragment(st, f) : f \in Chains(st)} |->
     {f \in Chains(st) : Fragment(st, f) = d}]

\* hash() of a tuple of small numbers: every element is mixed into the
\* accumulator by an invertible step, the length is added at the end, and
\* the value -1 is replaced (here on HashModulus values instead of 2^64)
RECURSIVE Mix(_, _)
Mix(acc, t) ==
  IF t = <<>> THEN acc
  ELSE LET a == (acc + Head(t) * 7) % HashModulus
           r == ((a * 4) % HashModulus) + (a \div (HashModulus \div 4))
       IN Mix((r * 11) % HashModulus, Tail(t))

TupleHash(t) ==
  LET acc == (Mix(5, t) + Len(t) + 13) % HashModulus
  IN IF acc = HashModulus - 1 THEN 20 ELSE acc

\* mutant of linear_hash_set: only the count reached is hashed, not every
\* count below it
linear_hash_set_top_only(frs, nbp) ==
  {TupleHash(Append(tpl, Min(Cardinality(frs[tpl]), nbp) - 1)) :
     tpl \in DOMAIN frs}

\* {hash((*tpl, cnt)) for tpl, count in fragments.items()
\*                    for cnt in range(min(len(count), number_bit_pairs))}
linear_hash_set(frs, nbp) ==
  UNION {{TupleHash(Append(tpl, cnt)) :
            cnt \in 0..(Min(Cardinality(frs[tpl]), nbp) - 1)} :
         tpl \in DOMAIN frs}

InitFp ==
  /\ rules = [templates |-> <<>>, alerts |-> <<>>]
  /\ rxn_ms = <<>> /\ rxn_os = <<>> /\ alerts = <<>>
  /\ global_alerts = <<>>
  /\ ti = 1
  /\ pc = "fp"
  /\ IdleCall
  /\ other = IdleGen
  /\ cache = <<>> /\ built = <<>> /\ ret = <<>>
  /\ structs \in FpStructures \X FpStructures
  /\ number_bit_pairs \in 1..MaxBitPairs
  /\ fragments = <<>> /\ hashes = <<>>
  /\ ChainsIdle

\* self._fragments(min_radius, max_radius), for both structures
FpFragments ==
  /\ pc = "fp"
  /\ fragments' = [i \in 1..2 |-> Fragments(structs[i])]
  /\ pc' = "fragments"
  /\ UNCHANGED <<structs, number_bit_pairs, hashes, chain_vars, other, lookup_vars,
                 reactor_vars, call_vars, gen_vars, log>>

\* the set comprehension of linear_hash_set, for both structures
FpHashSet ==
  /\ pc = "fragments"
  /\ hashes' = [i \in 1..2 |-> linear_hash_set(fragments[i], number_bit_pairs)]
  /\ pc' = "hashed"
  /\ UNCHANGED <<structs, number_bit_pairs, fragments, chain_vars, other, lookup_vars,
                 reactor_vars, call_vars, gen_vars, log>>

NextFp == FpFragments \/ FpHashSet

SpecFp == InitFp /\ [][NextFp]_vars

(* ---------------------- _chains, one pop per step ---------------------- *)
ChainAtomCounts == {1, 2, 3, 4}

\* molecular graphs: atoms 1..n, any set of bonds; the atoms and the
\* neighbours of an atom are kept in the order they were added in, here by
\* ascending or by descending atom number
ChainMols ==
  UNION {[atoms : {[i \in 1..n |-> 1]},
          bonds : SUBSET {e \in SUBSET (1..n) : Cardinality(e) = 2},
          descending : BOOLEAN] :
         n \in ChainAtomCounts}

\* the sequence q in the iteration order of the dicts of st
InDictOrder(st, q) == IF st.descending THEN Reverse(q) ELSE q

\* the orders in which the elements of a set can be iterated
Orders(S) ==
  {q \in [1..Cardinality(S) -> S] : \A i, j \in DOMAIN q : i # j => q[i] # q[j]}

\* frag if frag > rev else rev
Greater(frag) == IF TupleGreater(frag, Reverse(frag)) THEN frag ELSE Reverse(frag)

\* mutant of Var: `if x not in now` is missing
VarRevisiting(st, now) ==
  LET nb == SelectSeq([y \in 1..Len(st.atoms) |-> y],
                      LAMBDA y : {now[Len(now)], y} \in st.bonds)
  IN InDictOrder(st, [k \in 1..Len(nb) |-> Append(now, nb[k])])

\* var = [now + (x,) for x in bonds[now[-1]] if x not in now]
Var(st, now) ==
  LET nb == SelectSeq([y \in 1..Len(st.atoms) |-> y],
                      LAMBDA y : /\ {now[Len(now)], y} \in st.bonds
                                 /\ y \notin Range(now))
  IN InDictOrder(st, [k \in 1..Len(nb) |-> Append(now, nb[k])])

InitChains ==
  /\ rules = [templates |-> <<>>, alerts |-> <<>>]
  /\ rxn_ms = <<>> /\ rxn_os = <<>> /\ alerts = <<>>
  /\ global_alerts = <<>>
  /\ ti = 1
  /\ pc = "chains_call"
  /\ IdleCall
  /\ other = IdleGen
  /\ cache = <<>> /\ built = <<>> /\ ret = <<>>
  /\ structs = <<>> /\ number_bit_pairs = 1
  /\ fragments = <<>> /\ hashes = <<>>
  /\ mol \in ChainMols
  /\ chain_max \in 1..MaxRadius
  /\ chain_min \in 1..chain_max
  /\ queue = <<>> /\ arr = {}

\* min_radius == 1 and max_radius == 1: return arr
ChainsSingles ==
  /\ pc = "chains_call"
  /\ chain_min = 1 /\ chain_max = 1
  /\ arr' = {<<x>> : x \in 1..Len(mol.atoms)}
  /\ pc' = "chains_done"
  /\ UNCHANGED <<mol, chain_min, chain_max, queue, structs, number_bit_pairs,
                 fragments, hashes, other, lookup_vars, reactor_vars,
                 call_vars, gen_vars, log>>

\* min_radius == 1: arr = {(x,) for x in atoms}; queue = deque(arr), in the
\* iteration order of the set
ChainsBeginFromSet ==
  /\ pc = "chains_call"
  /\ chain_min = 1 /\ chain_max # 1
  /\ arr' = {<<x>> : x \in 1..Len(mol.atoms)}
  /\ queue' \in Orders({<<x>> : x \in 1..Len(mol.atoms)})
  /\ pc' = "chains"
  /\ UNCHANGED <<mol, chain_min, chain_max, structs, number_bit_pairs,
                 fragments, hashes, other, lookup_vars, reactor_vars,
                 call_vars, gen_vars, log>>

\* else: arr = set(); queue = deque((x,) for x in atoms), in the order of
\* the atom dict
ChainsBeginEmpty ==
  /\ pc = "chains_call"
  /\ chain_min # 1
  /\ arr' = {}
  /\ queue' = InDictOrder(mol, [x \in 1..Len(mol.atoms) |-> <<x>>])
  /\ pc' = "chains"
  /\ UNCHANGED <<mol, chain_min, chain_max, structs, number_bit_pairs,
                 fragments, hashes, other, lookup_vars, reactor_vars,
                 call_vars, gen_vars, log>>

\* one round of `while queue`: now = queue.popleft(); extend; add
ChainsStep ==
  /\ pc = "chains"
  /\ queue # <<>>
  /\ LET var == Var(mol, Head(queue))
     IN /\ queue' = Tail(queue)
                      \o (IF var # <<>> /\ Len(var[1]) < chain_max
                            THEN var ELSE <<>>)
        /\ arr' = arr \cup (IF var # <<>> /\ Len(var[1]) >= chain_min
                              THEN {Greater(var[k]) : k \in 1..Len(var)}
                              ELSE {})
  /\ UNCHANGED <<mol, chain_min, chain_max, structs, number_bit_pairs,
                 fragments, hashes, other, lookup_vars, reactor_vars,
                 call_vars, gen_vars, pc, log>>

\* the queue is empty: return arr
ChainsReturn ==
  /\ pc = "chains"
  /\ queue = <<>>
  /\ pc' = "chains_done"
  /\ UNCHANGED <<chain_vars, structs, number_bit_pairs, fragments, hashes,
                 other, lookup_vars, reactor_vars, call_vars, gen_vars, log>>

NextChains ==
  \/ ChainsSingles \/ ChainsBeginFromSet \/ ChainsBeginEmpty
  \/ ChainsStep \/ ChainsReturn

SpecChains == InitChains /\ [][NextChains]_vars

\* _chains is an ordinary function: once called it runs on
FairSpecChains == SpecChains /\ WF_vars(NextChains)

(* ------------------------------ claims --------------------------------- *)
Keys(q) == [i \in 1..Len(q) |-> Str(q[i])]
Distinct(q) == \A i, j \in 1..Len(q) : i # j => q[i] # q[j]
Events(op) == SelectSeq(log, LAMBDA e : e.op = op)

\* C1: in single-shot and in multi-step mode the canonical keys of the
\* results yielded by one invocation are pairwise distinct (in multi-step
\* mode: the keys of the rebuilt results that are yielded).
C1_YieldedKeysDistinct == Distinct(Keys(yielded))

\* the rebuilt results of every chain of stages that starts at frame f
RECURSIVE ChainKeys(_)
ChainKeys(f) ==
  LET raw == Rx(f.rx, f.rct)
      reb(i) == ReactionContainer(molecules, raw[i].products)
  IN UNION {{Str(reb(i))} \cup
            UNION {ChainKeys(c) : c \in Range(Children(reb(i), f))} :
            i \in 1..Len(raw)}

\* C2: when a multi-step invocation is exhausted, the rebuilt form of every
\* raw result of every chain (first stage an instance the alerts do not
\* block, every later stage a not-yet-used instance on the pool the branch
\* policy builds) has been yielded.
C2_EveryChainYielded ==
  (pc = "done" /\ ~one_shot /\ Passes) =>
    \A f \in Range(Seed(1, <<>>, molecules)) :
      ChainKeys(f) \subseteq Range(Keys(yielded))

\* every frame the search holds: on the stack, just popped, or just pushed
Frames ==
  Range(stack) \cup Range(pushed) \cup (IF cur.rx.id = 0 THEN {} ELSE {cur})
Ids(q) == {q[i].id : i \in 1..Len(q)}

C3_DepthBounded ==
  \A f \in Frames : ~f.rx.one_shot => Len(f.lin) + 1 <= Len(rxn_ms)

\* C3: a multi-step search over k compiled instances terminates (the stack
\* becomes empty and the generator is exhausted) for every reactant tuple and
\* every excess setting, and no lineage is longer than k stages.
C3_MultiStepTerminates ==
  /\ []C3_DepthBounded
  /\ (pc = "ms") ~> (pc = "done" /\ stack = <<>>)

\* a third-stage frame has been popped and the search has ended
C3_Witness ==
  pc = "done" /\ ~one_shot /\ Len(cur.lin) = 2 /\ Len(yielded) >= 3

\* C4: every frame of the multi-step search has its own instance and the
\* instances of its ancestors outside remainingRules, and its remainingRules
\* is its parent's with exactly its own instance removed; no instance is
\* used twice along a lineage, and a frame without remaining rules pushes
\* nothing (with one compiled instance the stack is empty after the first
\* pop).
C4_FrameInvariant ==
  pc = "ms" =>
    /\ \A f \in Frames :
         /\ f.rx.id \notin Ids(f.nxt)
         /\ Range(f.lin) \cap Ids(f.nxt) = {}
         /\ f.rx.id \notin Range(f.lin)
         /\ Distinct(f.lin)
         /\ Len(f.nxt) = Len(f.pnxt) - 1
         /\ \E m \in 1..Len(f.pnxt) :
              f.pnxt[m] = f.rx /\ f.nxt = DelAt(f.pnxt, m)
    /\ cur.nxt = <<>> => pushed = <<>>
    /\ (Len(rxn_ms) = 1 /\ cur.rx.id # 0) => stack = <<>>

\* a grandchild frame is on the stack
C4_Witness ==
  pc = "ms" /\ \E i \in 1..Len(stack) :
                 Len(stack[i].lin) = 2 /\ Len(stack[i].pnxt) = 1

\* C5: with check_alerts no rewrite executable is invoked for an instance one
\* of whose local alerts is a substructure of one of the reactants, at the
\* first stage or later (stated for instances whose alert is found both in
\* the initial reactants and in the pool the instance is invoked on).
C5_NoBlockedInvocation ==
  check_alerts =>
    \A i \in 1..Len(log) :
      log[i].op = "rx" =>
        ~(Blocked(alerts[log[i].inst], molecules)
            /\ Blocked(alerts[log[i].inst], log[i].arg))

\* C6: if check_alerts is set and a global alert is a substructure of a
\* reactant, the generator yields nothing, raises no error and invokes no
\* rewrite executable, in both modes and for any excess.
C6_GlobalAlertsBlock ==
  (pc # "ready" /\ check_alerts /\ Blocked(global_alerts, molecules)) =>
    /\ pc \in {"start", "done"}
    /\ yielded = <<>>
    /\ Events("rx") = <<>>
    /\ stack = <<>> /\ rs = <<>>

\* a blocked multi-step invocation has ended although an instance matches
C6_Witness ==
  /\ pc = "done" /\ check_alerts /\ ~one_shot /\ ~excess_arg.none
  /\ Blocked(global_alerts, molecules)
  /\ \E i \in 1..Len(rxn_ms) :
       ~Blocked(alerts[i], molecules) /\ Rx(rxn_ms[i], molecules) # <<>>

JustYielded == log # <<>> /\ log[Len(log)].op = "yield"
LastYielded == yielded[Len(yielded)]
AllIndices == [i \in 1..Len(molecules) |-> i - 1]

\* C7: in multi-step mode an invocation with excess omitted pushes, for every
\* result it yields, the frames that an invocation with
\* excess = [0, 1, ..., n-1] pushes.
C7_NoneMeansAllIndices ==
  (pc = "ms" /\ JustYielded /\ excess_arg.none) =>
    pushed = WholePoolFrames(
               fix_mapping_overlap(LastYielded.products
                                     \o Excess([none |-> FALSE,
                                                idx |-> AllIndices],
                                               molecules).items),
               cur)

\* C7 as amended: with excess omitted the next-stage pool is built from all
\* n reactants, as with excess = [0, ..., n-1], but the frames pushed for a
\* yielded result are not the same: an explicit excess pushes one frame per
\* remaining instance on the whole pool, an omitted excess pushes n frames
\* per remaining instance, each on the pool without one original reactant.
C7_NoneBuildsFromAllButDropsOne ==
  (pc = "ms" /\ JustYielded) =>
    LET x == fix_mapping_overlap(LastYielded.products \o molecules)
        np == Len(LastYielded.products)
        whole == WholePoolFrames(x, cur)
    IN /\ excess_arg.none =>
            /\ excess.items = molecules
            /\ Len(pushed) = Len(molecules) * Len(whole)
            /\ \A i \in 1..Len(pushed) :
                 \E w \in 1..Len(whole) : \E n \in (np + 1)..Len(x) :
                   pushed[i] = [whole[w] EXCEPT !.rct = DelAt(x, n)]
       /\ (~excess_arg.none /\ excess_arg.idx = AllIndices) => pushed = whole

\* an invocation without excess has yielded a result and pushed frames
C7_Witness ==
  pc = "ms" /\ JustYielded /\ excess_arg.none /\ Len(pushed) >= 4

RECURSIVE Dedup(_, _)
Dedup(q, ks) ==
  IF q = <<>> THEN <<>>
  ELSE IF Str(Head(q)) \in ks THEN Dedup(Tail(q), ks)
  ELSE <<Head(q)>> \o Dedup(Tail(q), ks \cup {Str(Head(q))})

IsPrefix(a, b) == Len(a) <= Len(b) /\ a = SubSeq(b, 1, Len(a))

\* the instances the alerts let through, in registration order
Unblocked ==
  SelectSeq([i \in 1..Len(rxn_os) |-> i],
            LAMBDA i : ~(check_alerts /\ Blocked(alerts[i], molecules)))

OsExpected ==
  Dedup(Concat([j \in 1..Len(Unblocked) |-> Rx(rxn_os[Unblocked[j]], molecules)]),
        {})

\* C8: in single-shot mode the single-shot executable of every instance that
\* the alerts do not block is invoked exactly once, on the whole
\* mapping-resolved reactant tuple, in registration order; blocked instances
\* and exhaustive executables are never invoked; the results are yielded in
\* registration order of the instance that first produced them and, within
\* an instance, in the engine's order.
C8_SingleShotOrder ==
  (one_shot /\ pc \in {"os", "done"} /\ Passes) =>
    LET calls == Events("rx")
    IN /\ \A i \in 1..Len(calls) :
            /\ calls[i].os
            /\ calls[i].arg = molecules
            /\ \A j \in 1..Len(molecules) : calls[i].arg[j].m = j
       /\ IsPrefix([i \in 1..Len(calls) |-> calls[i].inst], Unblocked)
       /\ IsPrefix(yielded, OsExpected)
       /\ pc = "done" => (Len(calls) = Len(Unblocked) /\ yielded = OsExpected)

\* a single-shot invocation has ended with a blocked instance, two invoked
\* instances and a duplicate result dropped
C8_Witness ==
  /\ pc = "done" /\ one_shot /\ check_alerts /\ Passes
  /\ Len(Unblocked) < Len(rxn_os)
  /\ Len(Events("rx")) >= 2
  /\ Len(yielded) >= 2
  /\ Events("dup") # <<>>

\* C9: an invocation with an empty reactant tuple fails when the first result
\* is requested: it yields nothing and performs no alert check, no mapping
\* resolution and no engine call, whatever one_shot, check_alerts and excess.
C9_EmptyTupleFails ==
  (pc # "ready" /\ molecules = <<>>) =>
    /\ pc \in {"start", "error"}
    /\ yielded = <<>>
    /\ log = <<>>
    /\ stack = <<>> /\ seen = {}

\* a multi-step invocation with alert checking and an empty tuple has failed
C9_Witness ==
  pc = "error" /\ molecules = <<>> /\ ~one_shot /\ check_alerts
    /\ ~excess_arg.none /\ global_alerts # <<>>

\* the roles of a template that are present, in the order A, B, C, D
PresentRoles(c) == SelectSeq(RoleOrder, LAMBDA x : x \in DOMAIN c.roles)

RECURSIVE Prod(_, _)
Prod(c, q) ==
  IF q = <<>> THEN 1 ELSE Len(c.roles[Head(q)]) * Prod(c, Tail(q))

RECURSIVE SumProd(_, _)
SumProd(ts, k) ==
  IF k = 0 THEN 0 ELSE Prod(ts[k], PresentRoles(ts[k])) + SumProd(ts, k - 1)

\* C10: construction builds, per template, one instance per element of the
\* cartesian product of the alternatives of the roles present (in the order
\* A, B, C, D): the instance count is the sum over the templates of the
\* products of the alternative counts, every instance has one pattern per
\* present role, and the exhaustive, single-shot and alert lists have the
\* same length and describe, index by index, the same combination and the
\* alerts of its template.
C10_CartesianInstances ==
  pc \in {"init", "ready"} =>
    /\ Len(rxn_ms) = SumProd(rules.templates, ti - 1)
    /\ Len(rxn_os) = Len(rxn_ms) /\ Len(alerts) = Len(rxn_ms)
    /\ \A i \in 1..Len(rxn_ms) :
         LET t == rxn_ms[i].products[1].query
             c == rules.templates[t]
             pr == PresentRoles(c)
         IN /\ t \in 1..(ti - 1)
            /\ ~rxn_ms[i].one_shot /\ rxn_os[i].one_shot
            /\ rxn_os[i].rs = rxn_ms[i].rs
            /\ rxn_os[i].products = rxn_ms[i].products
            /\ alerts[i] = [a \in 1..Len(c.alerts) |-> smarts(c.alerts[a])]
            /\ Len(rxn_ms[i].rs) = Len(pr)
            /\ \A k \in 1..Len(pr) :
                 \E a \in 1..Len(c.roles[pr[k]]) :
                   rxn_ms[i].rs[k] = smarts(c.roles[pr[k]][a])
            /\ \A j \in 1..Len(rxn_ms) :
                 (j # i /\ rxn_ms[j].products = rxn_ms[i].products)
                   => rxn_ms[j].rs # rxn_ms[i].rs
            /\ \A j \in 1..Len(rxn_ms) :
                 (j < i) => rxn_ms[j].products[1].query <= t

\* a reactor of two templates with different role sets and alternative
\* counts has been built
C10_Witness ==
  /\ pc = "ready" /\ Len(rules.templates) = 2
  /\ DOMAIN rules.templates[1].roles = {"B", "D"}
  /\ Len(rules.templates[1].roles["B"]) = 1
  /\ Len(rules.templates[1].roles["D"]) = 2
  /\ DOMAIN rules.templates[2].roles = {"A", "B", "C"}
  /\ Len(rxn_ms) >= 6

\* the pool built for the result just yielded when excess is omitted
PoolOfAll == fix_mapping_overlap(LastYielded.products \o molecules)

\* C14: in multi-step mode with excess omitted the driver pushes, for every
\* newly yielded result, one frame per remaining instance on the entire new
\* pool and, in addition, one frame per (dropped non-product element,
\* remaining instance) pair.
C14_WholePoolAndDropOne ==
  (pc = "ms" /\ JustYielded /\ excess_arg.none) =>
    /\ Range(WholePoolFrames(PoolOfAll, cur)) \subseteq Range(pushed)
    /\ Range(DropOneFrames(PoolOfAll, Len(LastYielded.products), cur))
         \subseteq Range(pushed)

\* C14 as amended: with excess omitted the driver pushes only drop-one
\* frames, n per remaining instance; no pushed frame runs on the entire new
\* pool, every pushed pool is one element shorter than it.
C14_OnlyDropOneFrames ==
  (pc = "ms" /\ JustYielded /\ excess_arg.none) =>
    /\ Len(pushed) = Len(molecules) * Len(cur.nxt)
    /\ \A i \in 1..Len(pushed) :
         /\ pushed[i].rct # PoolOfAll
         /\ Len(pushed[i].rct) = Len(PoolOfAll) - 1
    /\ Range(WholePoolFrames(PoolOfAll, cur)) \cap Range(pushed) = {}

\* a result was yielded without excess while an instance was left to try
C14_Witness ==
  pc = "ms" /\ JustYielded /\ excess_arg.none /\ cur.nxt # <<>>
    /\ pushed # <<>> /\ Len(molecules) = 2

\* C15: with excess omitted the frames pushed for a yielded result are
\* exactly n * |remainingRules|; the pool of each is the mapping-resolved new
\* pool (the p products in their order, then the n reactants in their order)
\* with exactly one element at a position >= p removed, and every (removed
\* position, remaining instance) pair occurs exactly once.
C15_DropOneEnumeration ==
  (pc = "ms" /\ JustYielded /\ excess_arg.none) =>
    LET p == Len(LastYielded.products)
        n == Len(molecules)
        x == PoolOfAll
    IN /\ Len(x) = p + n
       /\ \A j \in 1..p : x[j].s = LastYielded.products[j].s
       /\ \A j \in 1..n : x[p + j].s = molecules[j].s
       /\ Len(pushed) = n * Len(cur.nxt)
       /\ \A i \in 1..Len(pushed) :
            \E k \in (p + 1)..(p + n) : pushed[i].rct = DelAt(x, k)
       /\ \A k \in (p + 1)..(p + n) : \A m \in 1..Len(cur.nxt) :
            Cardinality({i \in 1..Len(pushed) :
                           /\ pushed[i].rct = DelAt(x, k)
                           /\ pushed[i].rx = cur.nxt[m]}) = 1

\* a result with two products was yielded without excess, two reactants and
\* a remaining instance
C15_Witness ==
  pc = "ms" /\ JustYielded /\ excess_arg.none
    /\ Len(LastYielded.products) = 2 /\ Len(molecules) = 2
    /\ cur.nxt # <<>>

\* the reactants an explicit index list selects, in index-list order
Selected == [i \in 1..Len(excess_arg.idx) |-> molecules[excess_arg.idx[i] + 1]]

\* C16: with an explicit excess list (any list, the empty one included) the
\* frames pushed for a yielded result are exactly |remainingRules|, one per
\* remaining instance, each on the entire new pool: the products in their
\* order followed by the selected reactants in index-list order; nothing is
\* dropped.
C16_ExplicitExcessWholePool ==
  (pc = "ms" /\ JustYielded /\ ~excess_arg.none) =>
    LET p == Len(LastYielded.products)
        e == Len(excess_arg.idx)
    IN /\ Len(pushed) = Len(cur.nxt)
       /\ \A m \in 1..Len(pushed) :
            /\ pushed[m].rx = cur.nxt[m]
            /\ Len(pushed[m].rct) = p + e
            /\ \A j \in 1..p : pushed[m].rct[j].s = LastYielded.products[j].s
            /\ \A j \in 1..e : pushed[m].rct[p + j].s = Selected[j].s
            /\ \A j \in 1..(p + e) : pushed[m].rct[j].m = j

\* a result was yielded with the index list [1, 0] over two different
\* reactants and frames were pushed
C16_Witness ==
  pc = "ms" /\ JustYielded /\ pushed # <<>>
    /\ excess_arg = [none |-> FALSE, idx |-> <<1, 0>>]
    /\ molecules[1].s # molecules[2].s

\* a was pushed before b
Before(a, b) == a.at[1] < b.at[1] \/ (a.at[1] = b.at[1] /\ a.at[2] < b.at[2])
JustPopped == pc = "ms" /\ log # <<>> /\ log[Len(log)].op = "rx"

\* C17: the multi-step stack is LIFO: at every iteration of the search loop
\* the frame popped was pushed more recently than every frame still on the
\* stack, seed frames included.
C17_PoppedIsMostRecent ==
  JustPopped => \A f \in Range(stack) : Before(f, cur)

\* C17 as amended: the frame popped is the right end of the deque. Child
\* frames are appended on the right, so a popped child was pushed more
\* recently than every frame still on the stack (depth-first); seeds are
\* pushed on the left, so they are popped in registration order: when a seed
\* is popped only seeds are left, all of them pushed after it.
C17_ChildrenLifoSeedsFifo ==
  JustPopped =>
    /\ cur.lin # <<>> => \A f \in Range(stack) : Before(f, cur)
    /\ cur.lin = <<>> =>
         \A f \in Range(stack) :
           f.lin = <<>> /\ Before(cur, f) /\ cur.rx.id < f.rx.id

\* after the first seed's subtree was searched the second seed is popped
\* while the third is still on the stack
C17_Witness ==
  /\ JustPopped /\ cur.lin = <<>> /\ cur.at = <<0, 2>>
  /\ stack # <<>> /\ yielded # <<>>

\* positions of the events of kind op in the log
At(op) == {i \in 1..Len(log) : log[i].op = op}

\* C18: in every invocation with a non-empty reactant tuple the mapping
\* resolver is called on the initial tuple before the global alert check,
\* also when the global alerts then block the invocation.
C18_ResolveBeforeGlobalCheck ==
  \A i \in At("global") : \E j \in At("fix") : j < i

\* C18 as amended: the global alerts are checked first, on the tuple as
\* given; the mapping resolver is called on the initial tuple only afterwards
\* and only when the invocation is not blocked: a blocked invocation never
\* calls it, an unblocked one calls it exactly once on the initial tuple.
C18_GlobalCheckBeforeResolve ==
  /\ \A i \in At("global") : \A j \in At("fix") : i < j
  /\ (pc = "done" /\ check_alerts /\ Blocked(global_alerts, molecules))
       => At("fix") = {}
  /\ (pc \in {"os", "ms", "done"} /\ Passes) =>
       /\ Cardinality(At("fix")) = 1
       /\ \A j \in At("fix") :
            /\ j = Cardinality(At("global")) + 1
            /\ fix_mapping_overlap(log[j].arg) = molecules
       /\ check_alerts <=> At("global") = {1}

\* an invocation passed a non-empty global alert list and resolved the
\* mapping afterwards
C18_Witness ==
  /\ pc \in {"os", "ms"} /\ check_alerts /\ global_alerts # <<>>
  /\ Len(log) >= 2 /\ log[1].op = "global" /\ log[2].op = "fix"

(* ---- an invocation computed in one piece, on a reactor given as data ---- *)
\* R: the compiled lists ms, os, al, the global alerts gal, and the call
\* arguments mols, one, ca, arg
RECURSIVE RefSeed(_, _, _, _)
RefSeed(R, i, st, m) ==
  IF i > Len(R.ms) THEN st
  ELSE IF R.ca /\ Blocked(R.al[i], m) THEN RefSeed(R, i + 1, st, m)
  ELSE RefSeed(R, i + 1,
               <<Frame(R.ms[i], m, DelAt(R.ms, i), <<>>, R.ms)>> \o st, m)

RefChildren(r, f, exc) ==
  LET x == fix_mapping_overlap(r.products \o exc.items)
  IN IF ~exc.alias THEN PerRule(x, f)
     ELSE DropOneFrames(x, Len(r.products), f)

\* the raw results of the frame f, one after the other
RECURSIVE RefResults(_, _, _, _, _)
RefResults(raw, f, acc, m, exc) ==
  IF raw = <<>> THEN acc
  ELSE IF Str(Head(raw)) \in acc.sn
    THEN RefResults(Tail(raw), f, acc, m, exc)
  ELSE LET r == ReactionContainer(m, Head(raw).products)
       IN RefResults(Tail(raw), f,
                     [st |-> acc.st \o RefChildren(r, f, exc),
                      sn |-> acc.sn \cup {Str(Head(raw))},
                      out |-> Append(acc.out, r)], m, exc)

RECURSIVE RefLoop(_, _, _, _)
RefLoop(acc, calls, m, exc) ==
  IF acc.st = <<>> THEN [out |-> acc.out, calls |-> calls]
  ELSE LET f == acc.st[Len(acc.st)]
       IN RefLoop(RefResults(Rx(f.rx, f.rct), f,
                             [acc EXCEPT !.st = SubSeq(acc.st, 1,
                                                       Len(acc.st) - 1)],
                             m, exc),
                  Append(calls, Event("rx", f.rx.id, f.rx.one_shot, f.rct)),
                  m, exc)

RefOneShot(R, m) ==
  LET unb == SelectSeq([i \in 1..Len(R.os) |-> i],
                       LAMBDA i : ~(R.ca /\ Blocked(R.al[i], m)))
  IN [out |-> Dedup(Concat([j \in 1..Len(unb) |-> Rx(R.os[unb[j]], m)]), {}),
      calls |-> [j \in 1..Len(unb) |->
                   Event("rx", R.os[unb[j]].id, R.os[unb[j]].one_shot, m)]]

\* the yielded results and the engine invocations of a whole invocation
RefRun(R) ==
  IF R.mols = <<>> \/ (R.ca /\ Blocked(R.gal, R.mols))
    THEN [out |-> <<>>, calls |-> <<>>]
  ELSE LET m == fix_mapping_overlap(R.mols)
       IN IF R.one THEN RefOneShot(R, m)
          ELSE RefLoop([st |-> RefSeed(R, 1, <<>>, m), sn |-> {},
                        out |-> <<>>], <<>>, m, Excess(R.arg, m))

\* the rule definition with every alert list emptied
StripAlerts(r) ==
  [templates |-> [i \in 1..Len(r.templates) |->
                    [r.templates[i] EXCEPT !.alerts = <<>>]],
   alerts |-> <<>>]

\* the current call on the reactor built from the alert-free rule definition
AlertFreeRun ==
  RefRun([ms |-> Compiled(StripAlerts(rules)).ms,
          os |-> Compiled(StripAlerts(rules)).os,
          al |-> Compiled(StripAlerts(rules)).al,
          gal |-> GlobalAlerts(StripAlerts(rules)),
          mols |-> molecules, one |-> one_shot, ca |-> TRUE,
          arg |-> excess_arg])

\* C12: with check_alerts = FALSE no alert is checked, and in both modes the
\* engine invocations and the yielded results are those of a reactor with
\* the same templates and all alert lists empty (a prefix of them at every
\* yield, all of them when the generator is exhausted).
C12_DisabledAlertsAreIgnored ==
  (~check_alerts /\ pc \in {"os", "ms", "done"}) =>
    /\ At("global") = {} /\ At("local") = {}
    /\ (pc = "done" \/ JustYielded) =>
         LET ref == AlertFreeRun
         IN /\ IsPrefix(yielded, ref.out)
            /\ IsPrefix(Events("rx"), ref.calls)
            /\ pc = "done" =>
                 (yielded = ref.out /\ Events("rx") = ref.calls)

\* a multi-step invocation without alert checking ran to its end with
\* results although a global and a local alert are in the reactants
C12_Witness ==
  /\ pc = "done" /\ ~check_alerts /\ ~one_shot /\ yielded # <<>>
  /\ Blocked(global_alerts, molecules)
  /\ \E i \in 1..Len(alerts) : Blocked(alerts[i], molecules)

\* what holds once the resolver has raised while a next-stage pool was built
C19_AfterFailure ==
  \A i \in At("raise") :
    /\ i = Len(log)
    /\ pc = "error"
    /\ log[i].inst # 0 =>
         /\ log[i - 1].op = "yield"
         /\ Len(yielded) = Cardinality(At("yield"))
         /\ log[i].arg = LastYielded.products \o excess.items
         /\ pushed = <<>>
         /\ \A f \in Range(stack) : f.at[1] # i - 1

\* C19: if the mapping resolver fails while a next-stage pool is built, the
\* generator ends with that error: afterwards nothing is yielded, no rewrite
\* executable is invoked and no frame is pushed, and the results yielded
\* before the failure, the one whose pool was being built included, stay
\* delivered.
C19_ResolverFailureEndsGenerator ==
  /\ []C19_AfterFailure
  /\ [][/\ IsPrefix(yielded, yielded')
        /\ pc = "error" => UNCHANGED <<yielded, stack, log>>]_vars

\* the resolver raised after the second result, with frames left untried
C19_Witness ==
  /\ pc = "error" /\ At("raise") # {} /\ Len(yielded) >= 2
  /\ stack # <<>>

\* the reactor is as construction left it
ReactorIntact ==
  /\ rxn_ms = Compiled(rules).ms
  /\ rxn_os = Compiled(rules).os
  /\ alerts = Compiled(rules).al
  /\ global_alerts = GlobalAlerts(rules)

\* the call at hand, run alone on the reactor as constructed
AloneRun ==
  RefRun([ms |-> Compiled(rules).ms, os |-> Compiled(rules).os,
          al |-> Compiled(rules).al, gal |-> GlobalAlerts(rules),
          mols |-> molecules, one |-> one_shot, ca |-> check_alerts,
          arg |-> excess_arg])

\* C11: an invocation never changes the reactor (global alerts, exhaustive
\* and single-shot instances, local alerts), and for every interleaving of
\* the steps of two generators of one reactor, abandoning included, each
\* generator yields what it yields when run alone: after every yield and
\* when abandoned a prefix of that sequence, and all of it when exhausted.
C11_InterleavedAsAlone ==
  /\ ReactorIntact
  /\ (pc \in {"done", "closed"} \/ (pc \in {"os", "ms"} /\ JustYielded)) =>
       LET alone == AloneRun
       IN /\ IsPrefix(yielded, alone.out)
          /\ pc = "done" => yielded = alone.out

\* a multi-step generator ran to its end with two results after the other
\* multi-step generator of the reactor was abandoned in mid-search
C11_Witness ==
  /\ pc = "done" /\ ~one_shot /\ Len(yielded) >= 2
  /\ other.pc = "closed" /\ ~other.one_shot
  /\ other.yielded # <<>> /\ other.stack # <<>>

\* the names of the predefined reactors: those with a rule dictionary
ReactorNames ==
  {n \in LookupNames :
     /\ AddUnderscore(n) \in DOMAIN Globals
     /\ Construct(Globals[AddUnderscore(n)].value, n, 0).ok}
KeysBefore(i) == IF i = 1 THEN {} ELSE ret[i - 1].keys

\* over any sequence of lookups a reactor is constructed at most once per
\* name, every lookup of a reactor name returns the one cached object, and a
\* lookup that raises leaves the cache as it was, without an entry for the
\* name
C20_BuiltOnceNoPartialEntry ==
  /\ \A i, j \in 1..Len(built) : built[i] = built[j] => i = j
  /\ \A i \in 1..Len(ret) :
       /\ ret[i].name \in ReactorNames =>
            /\ ret[i].kind = "object"
            /\ ret[i].name \in DOMAIN cache
            /\ ret[i].obj = cache[ret[i].name]
       /\ ret[i].kind \in {"KeyError", "AttributeError"} =>
            /\ ret[i].keys = KeysBefore(i)
            /\ ret[i].name \notin DOMAIN cache

\* a lookup of a name that is neither a reactor name nor a global of the
\* module raises AttributeError
C20_UnknownRaisesAttributeError ==
  \A i \in 1..Len(ret) :
    (ret[i].name \notin ReactorNames /\ ret[i].name \notin DOMAIN Globals)
      => ret[i].kind = "AttributeError"

\* C20: the module-level lookup builds and caches on first use: a reactor is
\* constructed at most once per name and later lookups return the cached
\* object; a lookup of a name that is not a registered reactor name raises
\* AttributeError and leaves the cache unchanged; a lookup whose
\* construction fails leaves no entry in the cache.
C20_LookupBuildsOnce ==
  C20_BuiltOnceNoPartialEntry /\ C20_UnknownRaisesAttributeError

\* how often the descriptor d occurs in the structure st
Occurs(st, d) == Cardinality({f \in Chains(st) : Fragment(st, f) = d})
Descriptors(st) == {Fragment(st, f) : f \in Chains(st)}

\* C13: in linear_hash_set a descriptor that occurs c times contributes the
\* hashes of the count indices 0 .. min(c, number_bit_pairs) - 1, one per
\* index, and nothing else is in the set; hence, if every descriptor of the
\* first structure occurs at least as often in the second, the hash set of
\* the first is a subset of the hash set of the second.
C13_CountIndicesAndSubset ==
  pc = "hashed" =>
    /\ \A i \in 1..2 :
         /\ \A d \in Descriptors(structs[i]) :
              \A k \in 0..(number_bit_pairs - 1) :
                k < Occurs(structs[i], d)
                  => TupleHash(Append(d, k)) \in hashes[i]
         /\ \A h \in hashes[i] :
              \E d \in Descriptors(structs[i]) :
                \E k \in 0..(number_bit_pairs - 1) :
                  k < Occurs(structs[i], d) /\ h = TupleHash(Append(d, k))
    /\ (\A d \in Descriptors(structs[1]) :
          Occurs(structs[1], d) <= Occurs(structs[2], d))
         => hashes[1] \subseteq hashes[2]

\* the second structure repeats a descriptor of the first more often than
\* number_bit_pairs counts, and has a hash the first has not
C13_Witness ==
  /\ pc = "hashed"
  /\ \A d \in Descriptors(structs[1]) :
       Occurs(structs[1], d) <= Occurs(structs[2], d)
  /\ \E d \in Descriptors(structs[1]) :
       /\ Occurs(structs[1], d) < Occurs(structs[2], d)
       /\ Occurs(structs[2], d) > number_bit_pairs
  /\ hashes[1] # hashes[2] /\ hashes[1] # {}

\* the simple paths of the graph st: no atom twice, neighbours bonded
SimplePaths(st) ==
  {q \in InjSeqs(1..Len(st.atoms), Len(st.atoms)) :
     /\ q # <<>>
     /\ \A i \in 1..(Len(q) - 1) : {q[i], q[i + 1]} \in st.bonds}

\* while _chains runs, the queued chains are simple paths shorter than
\* max_radius; what it returns is the set of the simple paths of min_radius
\* to max_radius atoms, each in its greater orientation only
C21_ChainsResult ==
  /\ pc = "chains" =>
       /\ \A k \in 1..Len(queue) :
            queue[k] \in SimplePaths(mol) /\ Len(queue[k]) < chain_max
       /\ \A f \in arr : Len(f) <= chain_max
  /\ pc = "chains_done" =>
       /\ arr = {Greater(q) : q \in {r \in SimplePaths(mol) :
                                      Len(r) \in chain_min..chain_max}}
       /\ \A f \in arr :
            /\ f \in SimplePaths(mol)
            /\ Len(f) >= chain_min /\ Len(f) <= chain_max
            /\ ~TupleGreater(Reverse(f), f)
            /\ Len(f) > 1 => Reverse(f) \notin arr
       /\ \A q \in SimplePaths(mol) :
            Len(q) \in chain_min..chain_max
              => Cardinality({q, Reverse(q)} \cap arr) = 1
       /\ (chain_min = min_radius /\ chain_max = max_radius)
            => arr = Chains(mol)

\* C21: for 1 <= min_radius <= max_radius, _chains terminates on every
\* finite molecular graph and returns exactly the simple paths whose number
\* of atoms lies in [min_radius, max_radius], each undirected path once, in
\* the lexicographically greater of its two orientations; nothing shorter
\* or longer is returned.
C21_ChainsAreSimplePaths ==
  /\ []C21_ChainsResult
  /\ (pc = "chains_call") ~> (pc = "chains_done")

\* _chains returned for a ring of four atoms with min_radius 2 and
\* max_radius 3: paths of three atoms, none of one or four
C21_Witness ==
  /\ pc = "chains_done" /\ chain_min = 2 /\ chain_max = 3
  /\ Len(mol.atoms) = 4
  /\ mol.bonds = {{1, 2}, {2, 3}, {3, 4}, {1, 4}}
  /\ <<3, 2, 1>> \in arr /\ Cardinality(arr) = 8

====
